---------------------------- MODULE Spec2Model ----------------------------
(***************************************************************************)
(* A model of the launcher tooling of the repository:                      *)
(*   - scripts/setup-env.js  (src/unnamed/part_002): port probing, port    *)
(*     scan, .env and apps/web/.env.local maintenance;                     *)
(*   - apps/web/scripts/dev.js: the supervisor of the Next.js dev server;  *)
(*   - scripts/run.sh: the launcher of the API and web jobs;               *)
(*   - the documented docker compose restart policy (src/unnamed/part_001);*)
(* and of the Project State Machine and the Session Relay of the design    *)
(* document, whose code is not among the source files and which are        *)
(* modelled from sections 4.3 and 4.4 of the specification.                *)
(***************************************************************************)
EXTENDS Integers, Sequences, FiniteSets, TLC

VARIABLES
    \* ---- setup-env.js ----
    platform,      \* require('os').platform()
    occupied,      \* the ports some process listens on
    envFile,       \* the .env file: [exists, API_PORT, WEB_PORT] (values are texts)
    webEnvFile,    \* apps/web/.env.local: [exists, API_BASE, WS_BASE] (port texts)
    envPc,         \* position of setupEnvironment
    existingEnv,   \* the existingEnv object of setupEnvironment
    apiPort,       \* let apiPort
    webPort,       \* let webPort
    apiStart,      \* the port the API resolution started from
    webStart,      \* the port the web resolution started from
    apiScanned,    \* findAvailablePort was called for the API port
    webScanned,    \* findAvailablePort was called for the web port
    envWritten,    \* this run executed fs.writeFileSync(envFile, ...)
    runNo,         \* how many times setupEnvironment has been started
    \* ---- apps/web/scripts/dev.js ----
    devState,      \* the dev.js process: "running" or "exited"
    devExit,       \* why dev.js ended
    nextState,     \* the child started by spawn: "running", "spawnError", "exited"
    nextExitCode,  \* the child's exit code (NullCode: none, or ended by a signal)
    nextEvent,     \* the event of the child dev.js has not handled yet
    nextSig,       \* the signal sent to the child and not yet taken by it
    nextIgnoresInt,\* the child ignores SIGINT
    browser,       \* openBrowserOnce: "off", "timer" (setTimeout pending), "opened"
    devStopAsked,  \* dev.js was asked to stop with SIGINT
    devSawFailure, \* a handler of dev.js has caught a failure of the child
    \* ---- scripts/run.sh ----
    shPc,          \* position of run.sh
    shExit,        \* why run.sh ended
    jobs,          \* the background jobs: [state, sig, ignoresTerm, code] of api and web
    shStopAsked,   \* the cleanup trap of run.sh has run
    \* ---- docker compose (restart: unless-stopped) ----
    ctState,       \* the container: "running", "exited", "stopped"
    ctExitCode,    \* the exit code of its last run
    ctFailRestarts,\* automatic restarts in a row that followed a non-zero exit
    \* ---- Project State Machine (specification 4.3) ----
    status,        \* project -> lifecycle status
    activeSession, \* project -> identifier of its active session, NoSession if none
    sessions,      \* the sessions created so far: identifier -> [project, terminal]
    lastCall,      \* the last operation: [op, project, outcome, before]
    \* ---- Session Relay (specification 4.4) ----
    seqNo,         \* project -> the last sequence number assigned
    ring,          \* project -> the retained events (their sequence numbers)
    subs,          \* client -> [active, project, queue, received]
    notice         \* client -> what the relay last told it

envVars == <<platform, occupied, envFile, webEnvFile, envPc, existingEnv,
             apiPort, webPort, apiStart, webStart, apiScanned, webScanned,
             envWritten, runNo>>

devVars == <<devState, devExit, nextState, nextExitCode, nextEvent, nextSig,
             nextIgnoresInt, browser, devStopAsked, devSawFailure>>

shVars == <<shPc, shExit, jobs, shStopAsked>>

ctVars == <<ctState, ctExitCode, ctFailRestarts>>

smVars == <<status, activeSession, sessions, lastCall>>

rlVars == <<seqNo, ring, subs, notice>>

vars == <<envVars, devVars, shVars, ctVars, smVars, rlVars>>

\* the launcher processes: dev.js, run.sh and the container
procVars == <<devVars, shVars, ctVars>>

-----------------------------------------------------------------------------
(* Bounds of the model *)

\* how many times setupEnvironment is run in one behaviour
MaxRuns == 2

\* how many restarts of the container in a row the model follows
MaxRestarts == 3

\* how many sessions are created in one behaviour
MaxSessions == 3

\* how many events are published to one project in one behaviour
MaxSeq == 4

\* the events the relay retains for one project
RingSize == 2

\* the events the relay queues for one subscriber
QueueCap == 2

-----------------------------------------------------------------------------
(* setup-env.js: constants and texts *)

DEFAULT_API_PORT == 8080
DEFAULT_WEB_PORT == 3000

\* the largest TCP port; lsof, netstat and net.Server.listen reject anything above
MaxPort == 65536 - 1

\* JavaScript's NaN, kept apart from every port number
NaN == 0 - 1

\* a !== b of JavaScript on numbers: NaN is unequal to everything, itself included
StrictNotEqual(a, b) == a = NaN \/ b = NaN \/ a # b

DigitChars == <<"0", "1", "2", "3", "4", "5", "6", "7", "8", "9">>

IsDigit(c) == \E i \in 1..10 : DigitChars[i] = c

DigitVal(c) == (CHOOSE i \in 1..10 : DigitChars[i] = c) - 1

\* the value of the digits of text from position i on, up to the first non-digit
RECURSIVE ParseDigits(_, _, _)
ParseDigits(text, i, acc) ==
    IF i > Len(text) \/ ~IsDigit(text[i])
    THEN acc
    ELSE ParseDigits(text, i + 1, acc * 10 + DigitVal(text[i]))

\* parseInt(text, 10) and parseInt(text) on a text without sign, blanks or 0x prefix:
\* the longest prefix of decimal digits, NaN when there is none (also for undefined)
ParseInt(text) ==
    IF Len(text) = 0 \/ ~IsDigit(text[1]) THEN NaN ELSE ParseDigits(text, 1, 0)

\* `${n}` of a template literal
RECURSIVE NumToText(_)
NumToText(n) ==
    IF n = NaN THEN <<"N", "a", "N">>
    ELSE IF n < 10 THEN <<DigitChars[n + 1]>>
    ELSE NumToText(n \div 10) \o <<DigitChars[(n % 10) + 1]>>

\* a key that is missing from .env, or whose value is empty (line 85 drops it)
Absent == <<>>

-----------------------------------------------------------------------------
(* setup-env.js: isPortAvailable and findAvailablePort *)

Platforms == {"darwin", "linux", "win32", "freebsd"}

\* the ports processes of the machine may listen on in the model
PortPool == {3000, 3001, 8080, 8081, 30000, 65534, 65535}

\* the texts a port of .env may hold before the first run
EnvTexts == {Absent, NumToText(3000), NumToText(8080), NumToText(65534),
             <<"a", "b", "c">>}

RECURSIVE Pow10(_)
Pow10(k) == IF k = 0 THEN 1 ELSE 10 * Pow10(k - 1)

\* the text ":<port>" occurs in a netstat line that shows the local port q
ColonPortOccursIn(port, q) ==
    /\ port # NaN
    /\ \E k \in 0..4 : q \div Pow10(k) = port

\* lsof -i :<port> -P -n | grep LISTEN gives some output
LsofListens(port, occ) == port \in occ

\* netstat -ano | findstr :<port> gives some output
NetstatFinds(port, occ) == \E q \in occ : ColonPortOccursIn(port, q)

\* isPortAvailable(port): "free" is resolve(true), "busy" is resolve(false),
\* "throw" is the rejection of the promise (net.Server.listen throws
\* ERR_SOCKET_BAD_PORT inside the promise executor)
IsPortAvailable(plat, occ, port) ==
    IF plat \in {"darwin", "linux"}
    THEN IF LsofListens(port, occ) THEN "busy" ELSE "free"
    ELSE IF plat = "win32"
    THEN IF NetstatFinds(port, occ) THEN "busy" ELSE "free"
    ELSE IF port = NaN \/ port > MaxPort THEN "throw"
    ELSE IF port \in occ THEN "busy" ELSE "free"

\* what findAvailablePort and the awaits of setupEnvironment give: a port or a throw
Threw == 0 - 2

\* findAvailablePort(startPort): the while loop of lines 57-61
RECURSIVE FindAvailablePort(_, _, _)
FindAvailablePort(plat, occ, port) ==
    LET r == IsPortAvailable(plat, occ, port) IN
    IF r = "throw" THEN Threw
    ELSE IF r = "busy" THEN FindAvailablePort(plat, occ, port + 1)
    ELSE port

\* lines 103-109 and 111-117: keep the port when it is free, scan from it otherwise
ResolvePort(plat, occ, port) ==
    LET r == IsPortAvailable(plat, occ, port) IN
    IF r = "throw" THEN Threw
    ELSE IF r = "busy" THEN FindAvailablePort(plat, occ, port)
    ELSE port

-----------------------------------------------------------------------------
(* setup-env.js: setupEnvironment *)

NoEnvFile == [exists |-> FALSE, API_PORT |-> Absent, WEB_PORT |-> Absent]

NoWebEnvFile == [exists |-> FALSE, API_BASE |-> Absent, WS_BASE |-> Absent]

EnvInit ==
    /\ platform \in Platforms
    /\ occupied \in SUBSET PortPool
    /\ envFile \in {NoEnvFile} \cup
                   [exists : {TRUE}, API_PORT : EnvTexts, WEB_PORT : EnvTexts]
    /\ webEnvFile = NoWebEnvFile
    /\ envPc = "start"
    /\ existingEnv = [API_PORT |-> Absent, WEB_PORT |-> Absent]
    /\ apiPort = DEFAULT_API_PORT
    /\ webPort = DEFAULT_WEB_PORT
    /\ apiStart = DEFAULT_API_PORT
    /\ webStart = DEFAULT_WEB_PORT
    /\ apiScanned = FALSE
    /\ webScanned = FALSE
    /\ envWritten = FALSE
    /\ runNo = 1

\* lines 75-100: read .env, take the ports it records
ReadEnv ==
    /\ envPc = "start"
    /\ LET ex == IF envFile.exists
                 THEN [API_PORT |-> envFile.API_PORT, WEB_PORT |-> envFile.WEB_PORT]
                 ELSE [API_PORT |-> Absent, WEB_PORT |-> Absent]
           a == IF ex.API_PORT # Absent THEN ParseInt(ex.API_PORT) ELSE DEFAULT_API_PORT
           w == IF ex.WEB_PORT # Absent THEN ParseInt(ex.WEB_PORT) ELSE DEFAULT_WEB_PORT
       IN /\ existingEnv' = ex
          /\ apiPort' = a
          /\ webPort' = w
          /\ apiStart' = a
          /\ webStart' = w
    /\ envPc' = "resolveApi"
    /\ UNCHANGED <<procVars, smVars, rlVars>>
    /\ UNCHANGED <<platform, occupied, envFile, webEnvFile, apiScanned, webScanned,
                   envWritten, runNo>>

\* lines 102-109: the API port
ResolveApiPort ==
    /\ envPc = "resolveApi"
    /\ LET p == ResolvePort(platform, occupied, apiPort) IN
       IF p = Threw
       THEN /\ envPc' = "failed"
            /\ UNCHANGED <<apiPort, apiScanned>>
       ELSE /\ envPc' = "resolveWeb"
            /\ apiPort' = p
            /\ apiScanned' = (IsPortAvailable(platform, occupied, apiPort) = "busy")
    /\ UNCHANGED <<procVars, smVars, rlVars>>
    /\ UNCHANGED <<platform, occupied, envFile, webEnvFile, existingEnv, webPort,
                   apiStart, webStart, webScanned, envWritten, runNo>>

\* lines 111-117: the web port
ResolveWebPort ==
    /\ envPc = "resolveWeb"
    /\ LET p == ResolvePort(platform, occupied, webPort) IN
       IF p = Threw
       THEN /\ envPc' = "failed"
            /\ UNCHANGED <<webPort, webScanned>>
       ELSE /\ envPc' = "writeFiles"
            /\ webPort' = p
            /\ webScanned' = (IsPortAvailable(platform, occupied, webPort) = "busy")
    /\ UNCHANGED <<procVars, smVars, rlVars>>
    /\ UNCHANGED <<platform, occupied, envFile, webEnvFile, existingEnv, apiPort,
                   apiStart, webStart, apiScanned, envWritten, runNo>>

\* the condition of lines 120-122
EnvNeedsWrite(file, ex, a, w) ==
    \/ ~file.exists
    \/ StrictNotEqual(ParseInt(ex.API_PORT), a)
    \/ StrictNotEqual(ParseInt(ex.WEB_PORT), w)

\* lines 119-153: write .env when needed, always write apps/web/.env.local, return
WriteEnvFiles ==
    /\ envPc = "writeFiles"
    /\ IF EnvNeedsWrite(envFile, existingEnv, apiPort, webPort)
       THEN /\ envFile' = [exists |-> TRUE, API_PORT |-> NumToText(apiPort),
                           WEB_PORT |-> NumToText(webPort)]
            /\ envWritten' = TRUE
       ELSE UNCHANGED <<envFile, envWritten>>
    /\ webEnvFile' = [exists |-> TRUE, API_BASE |-> NumToText(apiPort),
                      WS_BASE |-> NumToText(apiPort)]
    /\ envPc' = "done"
    /\ UNCHANGED <<procVars, smVars, rlVars>>
    /\ UNCHANGED <<platform, occupied, existingEnv, apiPort, webPort, apiStart,
                   webStart, apiScanned, webScanned, runNo>>

\* the script is started again (run.sh line 28 runs it on every launch), with the
\* same ports occupied
RunSetupAgain ==
    /\ envPc = "done"
    /\ runNo < MaxRuns
    /\ runNo' = runNo + 1
    /\ envPc' = "start"
    /\ existingEnv' = [API_PORT |-> Absent, WEB_PORT |-> Absent]
    /\ apiPort' = DEFAULT_API_PORT
    /\ webPort' = DEFAULT_WEB_PORT
    /\ apiStart' = DEFAULT_API_PORT
    /\ webStart' = DEFAULT_WEB_PORT
    /\ apiScanned' = FALSE
    /\ webScanned' = FALSE
    /\ envWritten' = FALSE
    /\ UNCHANGED <<procVars, smVars, rlVars>>
    /\ UNCHANGED <<platform, occupied, envFile, webEnvFile>>

EnvNext ==
    \/ ReadEnv
    \/ ResolveApiPort
    \/ ResolveWebPort
    \/ WriteEnvFiles
    \/ RunSetupAgain


-----------------------------------------------------------------------------
(* setup-env.js: properties *)

AfterApi == envPc \in {"resolveWeb", "writeFiles", "done"}

AfterWeb == envPc \in {"writeFiles", "done"}

\* min{p >= s : p not occupied}, computed without scanning
LowestFree(s, occ) ==
    CHOOSE p \in s..(s + Cardinality(occ)) :
        /\ p \notin occ
        /\ \A q \in s..(p - 1) : q \in occ

\* every port of the range of valid ports from s on is occupied
RangeExhausted(s, occ) ==
    /\ s \in 1..MaxPort
    /\ \A p \in s..MaxPort : p \in occ

\* C1: the API port and the web port chosen by one run of setupEnvironment are
\* two distinct ports, whatever ports are occupied and whatever .env holds.
C1_DistinctPorts ==
    (envPc = "done" /\ apiPort # NaN /\ webPort # NaN) => apiPort # webPort

\* C8: whenever findAvailablePort(s) has returned, its result is the lowest port
\* at or above s that is not occupied, and it is not an occupied port.
C8_LowestFreePort ==
    /\ (AfterApi /\ apiScanned) =>
          /\ apiPort = LowestFree(apiStart, occupied)
          /\ apiPort \notin occupied
    /\ (AfterWeb /\ webScanned) =>
          /\ webPort = LowestFree(webStart, occupied)
          /\ webPort \notin occupied

\* C9: the scan is bounded by the range of ports: when every port of the range
\* from the start port on is occupied the allocation fails, and a port that was
\* allocated from a start port of the range lies in the range.
C9_ScanBoundedByRange ==
    /\ AfterApi => /\ ~RangeExhausted(apiStart, occupied)
                   /\ (apiStart \in 1..MaxPort => apiPort \in 1..MaxPort)
    /\ AfterWeb => /\ ~RangeExhausted(webStart, occupied)
                   /\ (webStart \in 1..MaxPort => webPort \in 1..MaxPort)

\* the three results of a run agree: .env, apps/web/.env.local, the returned ports
EnvFilesAgree ==
    /\ envFile.exists
    /\ webEnvFile.exists
    /\ ParseInt(envFile.API_PORT) = apiPort
    /\ ParseInt(webEnvFile.API_BASE) = apiPort
    /\ ParseInt(webEnvFile.WS_BASE) = apiPort
    /\ ParseInt(envFile.WEB_PORT) = webPort

\* C10: after every successful run the port recorded in .env, the port written to
\* apps/web/.env.local and the returned port agree, and a second run with the
\* same ports occupied does not rewrite .env.
C10_EnvConsistentAndStable ==
    envPc = "done" =>
        /\ EnvFilesAgree
        /\ (runNo >= 2 => ~envWritten)

\* the first half of C10 alone
EnvAgreesWhenDone == envPc = "done" => EnvFilesAgree

\* the second half of C10 when .env never held a text that is not a number
EnvStableWhenNumeric ==
    (envPc = "done" /\ runNo >= 2 /\ apiPort # NaN /\ webPort # NaN) => ~envWritten

\* C8 on the platforms that probe with lsof or by binding the port
LowestFreeOffWindows == platform # "win32" => C8_LowestFreePort

\* on every platform a port that was scanned for is not a listening port
ScannedPortNotOccupied ==
    /\ (AfterApi /\ apiScanned) => apiPort \notin occupied
    /\ (AfterWeb /\ webScanned) => webPort \notin occupied

-----------------------------------------------------------------------------
(* apps/web/scripts/dev.js *)

\* the code of a process that has not exited, or that a signal ended (null)
NullCode == 0 - 1

\* the exit codes a child may end with by itself
ChildCodes == {0, 1}

\* lines 6-41: the module body has run: spawn was called and openBrowserOnce armed
\* its timer unless BROWSER is 'false' or 'none'
DevInit ==
    /\ devState = "running"
    /\ devExit = "none"
    /\ nextState \in {"running", "spawnError"}
    /\ nextExitCode = NullCode
    /\ nextEvent = IF nextState = "spawnError" THEN "error" ELSE "none"
    /\ nextSig = "none"
    /\ nextIgnoresInt \in BOOLEAN
    /\ browser \in {"off", "timer"}
    /\ devStopAsked = FALSE
    /\ devSawFailure = FALSE

DevQuiet ==
    /\ devState = "running"
    /\ devExit = "none"
    /\ nextState = "running"
    /\ nextExitCode = NullCode
    /\ nextEvent = "none"
    /\ nextSig = "none"
    /\ nextIgnoresInt = FALSE
    /\ browser = "off"
    /\ devStopAsked = FALSE
    /\ devSawFailure = FALSE

\* lines 20-31: the timer of openBrowserOnce fires; both outcomes of open() are caught
BrowserTimerFires ==
    /\ devState = "running"
    /\ browser = "timer"
    /\ browser' = "opened"
    /\ UNCHANGED <<devState, devExit, nextState, nextExitCode, nextEvent, nextSig,
                   nextIgnoresInt, devStopAsked, devSawFailure>>
    /\ UNCHANGED <<envVars, shVars, ctVars, smVars, rlVars>>

\* lines 44-47: dev.js receives SIGINT: next.kill('SIGINT'), then process.exit()
DevOnSIGINT ==
    /\ devState = "running"
    /\ nextSig' = IF nextState = "running" THEN "SIGINT" ELSE nextSig
    /\ devState' = "exited"
    /\ devExit' = "sigint"
    /\ devStopAsked' = TRUE
    /\ UNCHANGED <<nextState, nextExitCode, nextEvent, nextIgnoresInt, browser,
                   devSawFailure>>
    /\ UNCHANGED <<envVars, shVars, ctVars, smVars, rlVars>>

\* dev.js receives SIGTERM: no handler is installed, the default action ends it
DevOnSIGTERM ==
    /\ devState = "running"
    /\ devState' = "exited"
    /\ devExit' = "sigterm"
    /\ UNCHANGED <<nextState, nextExitCode, nextEvent, nextSig, nextIgnoresInt,
                   browser, devStopAsked, devSawFailure>>
    /\ UNCHANGED <<envVars, shVars, ctVars, smVars, rlVars>>

\* lines 49-53: the 'error' handler: process.exit(1)
DevOnError ==
    /\ devState = "running"
    /\ nextEvent = "error"
    /\ nextEvent' = "none"
    /\ devState' = "exited"
    /\ devExit' = "childError"
    /\ devSawFailure' = TRUE
    /\ UNCHANGED <<nextState, nextExitCode, nextSig, nextIgnoresInt, browser,
                   devStopAsked>>
    /\ UNCHANGED <<envVars, shVars, ctVars, smVars, rlVars>>

\* the condition of line 56
IsFailureCode(code) == code # 0 /\ code # NullCode

\* lines 55-60: the 'exit' handler: process.exit(code) for a code other than 0 and null
DevOnExit ==
    /\ devState = "running"
    /\ nextEvent = "exit"
    /\ nextEvent' = "none"
    /\ IF IsFailureCode(nextExitCode)
       THEN /\ devState' = "exited"
            /\ devExit' = "childExit"
            /\ devSawFailure' = TRUE
       ELSE UNCHANGED <<devState, devExit, devSawFailure>>
    /\ UNCHANGED <<nextState, nextExitCode, nextSig, nextIgnoresInt, browser,
                   devStopAsked>>
    /\ UNCHANGED <<envVars, shVars, ctVars, smVars, rlVars>>

\* nothing keeps the event loop of dev.js alive: the child is gone, its events are
\* handled and no timer is pending; node ends the process
DevLoopDrains ==
    /\ devState = "running"
    /\ nextState = "exited"
    /\ nextEvent = "none"
    /\ browser # "timer"
    /\ devState' = "exited"
    /\ devExit' = "drained"
    /\ UNCHANGED <<nextState, nextExitCode, nextEvent, nextSig, nextIgnoresInt,
                   browser, devStopAsked, devSawFailure>>
    /\ UNCHANGED <<envVars, shVars, ctVars, smVars, rlVars>>

\* the child (npx next dev) ends by itself
NextExits ==
    /\ nextState = "running"
    /\ \E code \in ChildCodes :
          /\ nextState' = "exited"
          /\ nextExitCode' = code
    /\ nextEvent' = IF devState = "running" THEN "exit" ELSE nextEvent
    /\ nextSig' = "none"
    /\ UNCHANGED <<devState, devExit, nextIgnoresInt, browser, devStopAsked,
                   devSawFailure>>
    /\ UNCHANGED <<envVars, shVars, ctVars, smVars, rlVars>>

\* the child takes the SIGINT sent by line 45: it ends, unless it ignores the signal
NextTakesSIGINT ==
    /\ nextState = "running"
    /\ nextSig = "SIGINT"
    /\ nextSig' = "none"
    /\ IF nextIgnoresInt
       THEN UNCHANGED <<nextState, nextExitCode, nextEvent>>
       ELSE /\ nextState' = "exited"
            /\ nextExitCode' = NullCode
            /\ nextEvent' = IF devState = "running" THEN "exit" ELSE nextEvent
    /\ UNCHANGED <<devState, devExit, nextIgnoresInt, browser, devStopAsked,
                   devSawFailure>>
    /\ UNCHANGED <<envVars, shVars, ctVars, smVars, rlVars>>

DevNext ==
    \/ BrowserTimerFires
    \/ DevOnSIGINT
    \/ DevOnSIGTERM
    \/ DevOnError
    \/ DevOnExit
    \/ DevLoopDrains
    \/ NextExits
    \/ NextTakesSIGINT

-----------------------------------------------------------------------------
(* scripts/run.sh *)

JobNames == {"api", "web"}

NewJob(ignores) == [state |-> "notStarted", sig |-> "none", ignoresTerm |-> ignores,
                    code |-> NullCode]

\* the steps of lines 19, 28 and 37 and the step that follows each
SetupSteps == {"install", "setupEnv", "setupVenv"}

AfterSetupStep(pc) ==
    IF pc = "install" THEN "setupEnv"
    ELSE IF pc = "setupEnv" THEN "setupVenv"
    ELSE "startApi"

ShInit ==
    /\ shPc = "install"
    /\ shExit = "none"
    /\ jobs \in [JobNames -> {NewJob(FALSE), NewJob(TRUE)}]
    /\ shStopAsked = FALSE

ShQuiet ==
    /\ shPc = "install"
    /\ shExit = "none"
    /\ jobs = [j \in JobNames |-> NewJob(FALSE)]
    /\ shStopAsked = FALSE

\* lines 19-42: npm install, setup-env.js, setup-venv.js; under set -e (line 3) the
\* script ends at the first of them that fails
ShSetupStep ==
    /\ shPc \in SetupSteps
    /\ \E ok \in BOOLEAN :
          IF ok
          THEN /\ shPc' = AfterSetupStep(shPc)
               /\ UNCHANGED shExit
          ELSE /\ shPc' = "exited"
               /\ shExit' = "setupFailed"
    /\ UNCHANGED <<jobs, shStopAsked>>
    /\ UNCHANGED <<envVars, devVars, ctVars, smVars, rlVars>>

\* SIGINT or SIGTERM before line 69 has installed the trap: the default action
ShKilledBeforeTrap ==
    /\ shPc \in SetupSteps
    /\ shPc' = "exited"
    /\ shExit' = "signal"
    /\ UNCHANGED <<jobs, shStopAsked>>
    /\ UNCHANGED <<envVars, devVars, ctVars, smVars, rlVars>>

\* lines 71-74: start the API job in the background, then sleep 2
ShStartApi ==
    /\ shPc = "startApi"
    /\ jobs' = [jobs EXCEPT !["api"].state = "running"]
    /\ shPc' = "startWeb"
    /\ UNCHANGED <<shExit, shStopAsked>>
    /\ UNCHANGED <<envVars, devVars, ctVars, smVars, rlVars>>

\* lines 76-84: start the web job in the background, then wait for both jobs
ShStartWeb ==
    /\ shPc = "startWeb"
    /\ jobs' = [jobs EXCEPT !["web"].state = "running"]
    /\ shPc' = "wait"
    /\ UNCHANGED <<shExit, shStopAsked>>
    /\ UNCHANGED <<envVars, devVars, ctVars, smVars, rlVars>>

\* kill $(jobs -p) of line 63: SIGTERM to every job that is running
KillJobs(js) ==
    [j \in JobNames |->
        IF js[j].state = "running" THEN [js[j] EXCEPT !.sig = "SIGTERM"] ELSE js[j]]

\* lines 60-69: SIGINT or SIGTERM with the trap installed: cleanup sends the kill
\* and starts its wait
ShCleanup ==
    /\ shPc \in {"startApi", "startWeb", "wait"}
    /\ jobs' = KillJobs(jobs)
    /\ shPc' = "cleanupWait"
    /\ shStopAsked' = TRUE
    /\ UNCHANGED shExit
    /\ UNCHANGED <<envVars, devVars, ctVars, smVars, rlVars>>

\* lines 64-66: the wait of cleanup returns once no job is running; exit 0
ShCleanupDone ==
    /\ shPc = "cleanupWait"
    /\ \A j \in JobNames : jobs[j].state # "running"
    /\ shPc' = "exited"
    /\ shExit' = "cleanup"
    /\ UNCHANGED <<jobs, shStopAsked>>
    /\ UNCHANGED <<envVars, devVars, ctVars, smVars, rlVars>>

\* line 84: wait $API_PID $WEB_PID returns once both jobs have ended; the script
\* ends with it
ShWaitReturns ==
    /\ shPc = "wait"
    /\ \A j \in JobNames : jobs[j].state = "exited"
    /\ shPc' = "exited"
    /\ shExit' = "jobsEnded"
    /\ UNCHANGED <<jobs, shStopAsked>>
    /\ UNCHANGED <<envVars, devVars, ctVars, smVars, rlVars>>

\* a job ends by itself
JobExits ==
    \E j \in JobNames, code \in ChildCodes :
        /\ jobs[j].state = "running"
        /\ jobs' = [jobs EXCEPT ![j].state = "exited", ![j].code = code,
                                ![j].sig = "none"]
        /\ UNCHANGED <<shPc, shExit, shStopAsked>>
        /\ UNCHANGED <<envVars, devVars, ctVars, smVars, rlVars>>

\* a job takes the SIGTERM of cleanup: it ends, unless it ignores the signal
JobTakesSIGTERM ==
    \E j \in JobNames :
        /\ jobs[j].state = "running"
        /\ jobs[j].sig = "SIGTERM"
        /\ jobs' = IF jobs[j].ignoresTerm
                   THEN [jobs EXCEPT ![j].sig = "none"]
                   ELSE [jobs EXCEPT ![j].sig = "none", ![j].state = "exited"]
        /\ UNCHANGED <<shPc, shExit, shStopAsked>>
        /\ UNCHANGED <<envVars, devVars, ctVars, smVars, rlVars>>

ShNext ==
    \/ ShSetupStep
    \/ ShKilledBeforeTrap
    \/ ShStartApi
    \/ ShStartWeb
    \/ ShCleanup
    \/ ShCleanupDone
    \/ ShWaitReturns
    \/ JobExits
    \/ JobTakesSIGTERM

-----------------------------------------------------------------------------
(* docker compose: restart: unless-stopped *)

CtInit ==
    /\ ctState = "running"
    /\ ctExitCode = NullCode
    /\ ctFailRestarts = 0

\* the command of the container (Dockerfile, CMD) ends
ContainerExits ==
    /\ ctState = "running"
    /\ \E code \in ChildCodes : ctExitCode' = code
    /\ ctState' = "exited"
    /\ UNCHANGED ctFailRestarts
    /\ UNCHANGED <<envVars, devVars, shVars, smVars, rlVars>>

\* restart: unless-stopped restarts a container that has exited, whatever its exit
\* code, as long as nobody has stopped it
RestartPolicyApplies(state, code) == state = "exited"

ComposeRestarts ==
    /\ RestartPolicyApplies(ctState, ctExitCode)
    /\ ctFailRestarts < MaxRestarts
    /\ ctState' = "running"
    /\ ctFailRestarts' = IF ctExitCode # 0 THEN ctFailRestarts + 1 ELSE 0
    /\ UNCHANGED ctExitCode
    /\ UNCHANGED <<envVars, devVars, shVars, smVars, rlVars>>

\* docker stop / docker compose stop
ContainerStopped ==
    /\ ctState \in {"running", "exited"}
    /\ ctState' = "stopped"
    /\ UNCHANGED <<ctExitCode, ctFailRestarts>>
    /\ UNCHANGED <<envVars, devVars, shVars, smVars, rlVars>>

CtNext ==
    \/ ContainerExits
    \/ ComposeRestarts
    \/ ContainerStopped

-----------------------------------------------------------------------------
(* dev.js, run.sh, compose: properties *)

\* C4: the automatic restarts of one child that follow non-zero exits in a row
\* never exceed one.
C4_AtMostOneRestart == ctFailRestarts <= 1

\* C5: once a stop has been asked for and the child has taken the graceful signal,
\* the child is terminated: by the signal, or by the forceful kill that follows.
C5_StopTerminatesChild ==
    /\ (devStopAsked /\ nextSig = "none") => nextState # "running"
    /\ shStopAsked =>
          \A j \in JobNames : jobs[j].sig = "none" => jobs[j].state # "running"

\* C6: when the launcher has terminated, no child it started is running.
C6_NoOrphans ==
    /\ devState = "exited" => nextState # "running"
    /\ shPc = "exited" => \A j \in JobNames : jobs[j].state # "running"

\* C7: a failure of the child is caught by the handlers of dev.js and dev.js keeps
\* running.
C7_SupervisorSurvives == devSawFailure => devState = "running"

\* the half of C6 that is about run.sh
ShNoOrphans == shPc = "exited" => \A j \in JobNames : jobs[j].state # "running"

\* dev.js never starts its child a second time: it ends with the child's failure
DevEndsOnFailure == devSawFailure => devState = "exited"

-----------------------------------------------------------------------------
(* Project State Machine (specification 4.3) *)

Projects == {"p1", "p2"}

NoSession == 0

SmInit ==
    /\ status = [p \in Projects |-> "Initializing"]
    /\ activeSession = [p \in Projects |-> NoSession]
    /\ sessions = <<>>
    /\ lastCall = [op |-> "none", project |-> "p1", outcome |-> "ok",
                   before |-> [status |-> "Initializing", session |-> NoSession,
                               count |-> 0]]

\* what an operation found when it was called
Before(p) == [status |-> status[p], session |-> activeSession[p],
              count |-> Len(sessions)]

Called(op, p, outcome) ==
    lastCall' = [op |-> op, project |-> p, outcome |-> outcome, before |-> Before(p)]

\* an invalid transition attempt: surfaced to the caller, no state is mutated
Rejected(op, p) ==
    /\ Called(op, p, "InvalidTransition")
    /\ UNCHANGED <<status, activeSession, sessions>>

\* the session of project p becomes terminal
EndSession(p) ==
    [i \in DOMAIN sessions |->
        IF i = activeSession[p] THEN [sessions[i] EXCEPT !.terminal = TRUE]
        ELSE sessions[i]]

\* Initializing -> Active: the project is ready to accept a prompt
Activate ==
    \E p \in Projects :
        /\ IF status[p] = "Initializing"
           THEN /\ status' = [status EXCEPT ![p] = "Active"]
                /\ Called("activate", p, "ok")
                /\ UNCHANGED <<activeSession, sessions>>
           ELSE Rejected("activate", p)
        /\ UNCHANGED <<envVars, procVars, rlVars>>

\* a prompt is accepted while a session is running, too
PromptAllowedAlsoGenerating(st) == st \in {"Active", "Generating"}

\* a prompt is accepted in Active only
PromptAllowed(st) == st = "Active"

\* Active -> Generating: an agent session is spawned and becomes the active one
Prompt ==
    \E p \in Projects :
        /\ IF PromptAllowed(status[p])
           THEN /\ Len(sessions) < MaxSessions
                /\ sessions' = Append(sessions, [project |-> p, terminal |-> FALSE])
                /\ activeSession' = [activeSession EXCEPT ![p] = Len(sessions) + 1]
                /\ status' = [status EXCEPT ![p] = "Generating"]
                /\ Called("prompt", p, "ok")
           ELSE Rejected("prompt", p)
        /\ UNCHANGED <<envVars, procVars, rlVars>>

\* Generating -> Active by explicit cancel: the session is stopped
Cancel ==
    \E p \in Projects :
        /\ IF status[p] = "Generating"
           THEN /\ sessions' = EndSession(p)
                /\ activeSession' = [activeSession EXCEPT ![p] = NoSession]
                /\ status' = [status EXCEPT ![p] = "Active"]
                /\ Called("cancel", p, "ok")
           ELSE Rejected("cancel", p)
        /\ UNCHANGED <<envVars, procVars, rlVars>>

\* Generating -> Active (success) or Error (failure) on the SessionEnded event
SessionEnded ==
    \E p \in Projects, success \in BOOLEAN :
        /\ IF status[p] = "Generating"
           THEN /\ sessions' = EndSession(p)
                /\ activeSession' = [activeSession EXCEPT ![p] = NoSession]
                /\ status' = [status EXCEPT ![p] = IF success THEN "Active" ELSE "Error"]
                /\ Called("sessionEnded", p, "ok")
           ELSE Rejected("sessionEnded", p)
        /\ UNCHANGED <<envVars, procVars, rlVars>>

\* Error -> Active: the user retries
Retry ==
    \E p \in Projects :
        /\ IF status[p] = "Error"
           THEN /\ status' = [status EXCEPT ![p] = "Active"]
                /\ Called("retry", p, "ok")
                /\ UNCHANGED <<activeSession, sessions>>
           ELSE Rejected("retry", p)
        /\ UNCHANGED <<envVars, procVars, rlVars>>

\* Error -> Terminated: the project is explicitly closed
Close ==
    \E p \in Projects :
        /\ IF status[p] = "Error"
           THEN /\ status' = [status EXCEPT ![p] = "Terminated"]
                /\ Called("close", p, "ok")
                /\ UNCHANGED <<activeSession, sessions>>
           ELSE Rejected("close", p)
        /\ UNCHANGED <<envVars, procVars, rlVars>>

SmNext ==
    \/ Activate
    \/ Prompt
    \/ Cancel
    \/ SessionEnded
    \/ Retry
    \/ Close

NonTerminalSessions(p) ==
    {i \in DOMAIN sessions : sessions[i].project = p /\ ~sessions[i].terminal}

\* C2: a prompt sent to a project that is Generating fails with InvalidTransition,
\* spawns no session and leaves the status and the active session of the project
\* as they were; and every project has at most one non-terminal session.
C2_PromptWhileGeneratingRejected ==
    /\ (lastCall.op = "prompt" /\ lastCall.before.status = "Generating") =>
          /\ lastCall.outcome = "InvalidTransition"
          /\ status[lastCall.project] = "Generating"
          /\ activeSession[lastCall.project] = lastCall.before.session
          /\ Len(sessions) = lastCall.before.count
    /\ \A p \in Projects : Cardinality(NonTerminalSessions(p)) <= 1

\* a second prompt was sent to a Generating project whose session is still running,
\* after an earlier session of the project had ended
C2_Witness ==
    /\ lastCall.op = "prompt"
    /\ lastCall.before.status = "Generating"
    /\ Cardinality(NonTerminalSessions(lastCall.project)) = 1
    /\ \E i \in DOMAIN sessions :
          sessions[i].project = lastCall.project /\ sessions[i].terminal

-----------------------------------------------------------------------------
(* Session Relay (specification 4.4) *)

Clients == {"c1", "c2"}

NoSub == [active |-> FALSE, project |-> "p1", queue |-> <<>>, received |-> <<>>]

RlInit ==
    /\ seqNo = [p \in Projects |-> 0]
    /\ ring = [p \in Projects |-> <<>>]
    /\ subs = [c \in Clients |-> NoSub]
    /\ notice = [c \in Clients |-> "none"]

\* the last n elements of a sequence
LastN(q, n) == IF Len(q) <= n THEN q ELSE SubSeq(q, Len(q) - n + 1, Len(q))

\* a full queue keeps its events and silently loses the new one
EnqueueOrDrop(sub, n) ==
    IF Len(sub.queue) < QueueCap
    THEN [sub EXCEPT !.queue = Append(@, n)]
    ELSE sub

\* delivery of event n to one subscriber: queued while the bounded buffer has room,
\* the subscriber is disconnected when it has none
Enqueue(sub, n) ==
    IF Len(sub.queue) < QueueCap
    THEN [sub EXCEPT !.queue = Append(@, n)]
    ELSE [sub EXCEPT !.active = FALSE, !.queue = <<>>]

\* publish(event): the next sequence number of the project, the bounded ring, and
\* delivery to every current subscriber of the project
Publish ==
    \E p \in Projects :
        /\ seqNo[p] < MaxSeq
        /\ LET n == seqNo[p] + 1
               after == [c \in Clients |->
                           IF subs[c].active /\ subs[c].project = p
                           THEN Enqueue(subs[c], n) ELSE subs[c]]
           IN /\ seqNo' = [seqNo EXCEPT ![p] = n]
              /\ ring' = [ring EXCEPT ![p] = LastN(Append(@, n), RingSize)]
              /\ subs' = after
              /\ notice' = [c \in Clients |->
                              IF subs[c].active /\ ~after[c].active
                              THEN "overflow" ELSE notice[c]]
        /\ UNCHANGED <<envVars, procVars, smVars>>

\* the events after sequence number from are all retained
Replayable(p, from) == from >= seqNo[p] - Len(ring[p])

\* subscribe(projectId, fromSequence): replay of the retained events after
\* fromSequence, then live; a resynchronization signal when they are not retained
Subscribe ==
    \E c \in Clients, p \in Projects, from \in 0..MaxSeq :
        /\ ~subs[c].active
        /\ from <= seqNo[p]
        /\ IF Replayable(p, from)
           THEN LET replay == SelectSeq(ring[p], LAMBDA n : n > from) IN
                /\ subs' = [subs EXCEPT ![c] = [active |-> TRUE, project |-> p,
                                                queue |-> replay, received |-> <<>>]]
                /\ notice' = [notice EXCEPT ![c] = "subscribed"]
           ELSE /\ subs' = [subs EXCEPT ![c] = NoSub]
                /\ notice' = [notice EXCEPT ![c] = "resync"]
        /\ UNCHANGED <<seqNo, ring>>
        /\ UNCHANGED <<envVars, procVars, smVars>>

\* the head of the outbound queue reaches the client
Deliver ==
    \E c \in Clients :
        /\ subs[c].active
        /\ subs[c].queue # <<>>
        /\ subs' = [subs EXCEPT ![c].received = Append(@, Head(subs[c].queue)),
                                ![c].queue = Tail(@)]
        /\ UNCHANGED <<seqNo, ring, notice>>
        /\ UNCHANGED <<envVars, procVars, smVars>>

\* unsubscribe: the subscription ends
Unsubscribe ==
    \E c \in Clients :
        /\ subs[c].active
        /\ subs' = [subs EXCEPT ![c].active = FALSE, ![c].queue = <<>>]
        /\ notice' = [notice EXCEPT ![c] = "none"]
        /\ UNCHANGED <<seqNo, ring>>
        /\ UNCHANGED <<envVars, procVars, smVars>>

RlNext ==
    \/ Publish
    \/ Subscribe
    \/ Deliver
    \/ Unsubscribe

\* each element is the one before it plus one
Consecutive(q) == \A i \in 1..(Len(q) - 1) : q[i + 1] = q[i] + 1

\* C3: the sequence numbers a subscriber receives during one subscription are
\* strictly increasing and have no gaps, and so are those still queued for it.
C3_GapFreeDelivery ==
    \A c \in Clients : Consecutive(subs[c].received \o subs[c].queue)

\* a subscriber has received a replayed event followed by live events while the
\* other subscriber was disconnected for overflowing its queue
C3_Witness ==
    \E c, d \in Clients :
        /\ c # d
        /\ subs[c].active
        /\ Len(subs[c].received) >= 3
        /\ subs[c].received[1] > 1
        /\ notice[d] = "overflow"

-----------------------------------------------------------------------------
(* Specifications *)

ProcNext == DevNext \/ ShNext \/ CtNext

\* a fresh checkout on linux: no .env, no port occupied, setup-env.js not yet run
EnvQuiet ==
    /\ platform = "linux"
    /\ occupied = {}
    /\ envFile = NoEnvFile
    /\ webEnvFile = NoWebEnvFile
    /\ envPc = "start"
    /\ existingEnv = [API_PORT |-> Absent, WEB_PORT |-> Absent]
    /\ apiPort = DEFAULT_API_PORT
    /\ webPort = DEFAULT_WEB_PORT
    /\ apiStart = DEFAULT_API_PORT
    /\ webStart = DEFAULT_WEB_PORT
    /\ apiScanned = FALSE
    /\ webScanned = FALSE
    /\ envWritten = FALSE
    /\ runNo = 1

\* setup-env.js
InitEnv == EnvInit /\ DevQuiet /\ ShQuiet /\ CtInit /\ SmInit /\ RlInit

SpecEnv == InitEnv /\ [][EnvNext]_vars

\* dev.js, run.sh and the container
InitProc == EnvQuiet /\ DevInit /\ ShInit /\ CtInit /\ SmInit /\ RlInit

SpecProc == InitProc /\ [][ProcNext]_vars

\* the Project State Machine
InitSM == EnvQuiet /\ DevQuiet /\ ShQuiet /\ CtInit /\ SmInit /\ RlInit

SpecSM == InitSM /\ [][SmNext]_vars

\* the Session Relay
InitRelay == EnvQuiet /\ DevQuiet /\ ShQuiet /\ CtInit /\ RlInit /\ SmInit

SpecRelay == InitRelay /\ [][RlNext]_vars

=============================================================================
